---- MODULE Spec2Model ----
(***************************************************************************)
(* Model of gemini-proxy: the credential selector (util/redis), the        *)
(* forwarder (handler.SendToGemini) and the HTTP entry point               *)
(* (api.MainHandle).  Strings are TLA+ strings; characters are strings of  *)
(* length one.                                                             *)
(***************************************************************************)
EXTENDS Integers, Sequences, FiniteSets, TLC

\* ------------------------------------------------------------------------
\* Bounds of the model
\* ------------------------------------------------------------------------
\* goroutines that serve requests
NumWorkers == 2

\* inbound requests of a run with concurrent workers
MaxReq == 2

\* inbound requests of a run with one worker
MaxSeqReq == 4

\* inbound requests of a run in which two instances start together
MaxPeerReq == 2

\* longest secret given to maskAPIKey
MaxSecretLen == 9

\* ------------------------------------------------------------------------
\* Bytes and strings
\* ------------------------------------------------------------------------
\* the printable ASCII characters in code order: AsciiLo is 32 (space) to 95
\* (_), AsciiHi is 97 (a) to 126 (~).  Byte 96 cannot be written in a TLA+
\* string; no input of the model contains it.
AsciiLo == " !\"#$%&'()*+,-./0123456789:;<=>?@ABCDEFGHIJKLMNOPQRSTUVWXYZ[\\]^_"

AsciiHi == "abcdefghijklmnopqrstuvwxyz{|}~"

\* every byte outside the printable range is represented by this character
CTL == "\n"

At(s, i) == SubSeq(s, i, i)

\* first position of c in s at or after i, 0 if none
IndexFrom(s, c, i) ==
  LET I == {j \in i..Len(s) : At(s, j) = c} IN
  IF I = {} THEN 0 ELSE CHOOSE j \in I : \A k \in I : j <= k

\* strings.Index for a single character: first position of c in s, 0 if none
Index(s, c) == IndexFrom(s, c, 1)

Contains(s, c) == Index(s, c) # 0

\* the characters of s
Chars(s) == {At(s, i) : i \in 1..Len(s)}

\* the byte value of every printable character
OrdTable ==
  [c \in Chars(AsciiLo) \cup Chars(AsciiHi) |->
     IF Contains(AsciiLo, c) THEN Index(AsciiLo, c) + 31
     ELSE Index(AsciiHi, c) + 96]

\* byte value of a character
Ord(c) == IF c \in DOMAIN OrdTable THEN OrdTable[c] ELSE 10

Chr(b) ==
  IF b >= 32 /\ b <= 95 THEN At(AsciiLo, b - 31)
  ELSE IF b >= 97 /\ b <= 126 THEN At(AsciiHi, b - 96)
  ELSE CTL

HexDigits == "0123456789ABCDEF"

HexChars == Chars("0123456789ABCDEFabcdef")

ishex(c) == c \in HexChars

unhex(c) ==
  IF Contains("0123456789", c) THEN Index("0123456789", c) - 1
  ELSE IF Contains("abcdef", c) THEN Index("abcdef", c) + 9
  ELSE IF Contains("ABCDEF", c) THEN Index("ABCDEF", c) + 9
  ELSE 0

\* strings.Cut(s, sep): the text before and after the first sep
Cut(s, sep) ==
  LET i == Index(s, sep) IN
  IF i = 0 THEN [before |-> s, after |-> "", found |-> FALSE]
  ELSE [before |-> SubSeq(s, 1, i - 1),
        after |-> SubSeq(s, i + 1, Len(s)),
        found |-> TRUE]

isSpace(c) == c = " " \/ c = CTL \/ c = "\t"

RECURSIVE TrimLeft(_)
TrimLeft(s) == IF Len(s) > 0 /\ isSpace(At(s, 1)) THEN TrimLeft(Tail(s)) ELSE s

RECURSIVE TrimRight(_)
TrimRight(s) ==
  IF Len(s) > 0 /\ isSpace(At(s, Len(s)))
  THEN TrimRight(SubSeq(s, 1, Len(s) - 1)) ELSE s

\* strings.TrimSpace
TrimSpace(s) == TrimRight(TrimLeft(s))

\* strings.Split(s, sep) for a single-character separator
RECURSIVE Split(_, _)
Split(s, sep) ==
  LET c == Cut(s, sep) IN
  IF c.found THEN <<c.before>> \o Split(c.after, sep) ELSE <<s>>

\* ------------------------------------------------------------------------
\* net/url, as called by the handlers
\* ------------------------------------------------------------------------
AlnumChars ==
  Chars("0123456789ABCDEFGHIJKLMNOPQRSTUVWXYZabcdefghijklmnopqrstuvwxyz")

isAlnum(c) == c \in AlnumChars

\* url.shouldEscape for the modes the handlers reach: "path" (encodePath),
\* "query" (encodeQueryComponent) and "fragment" (encodeFragment)
shouldEscape(c, mode) ==
  IF isAlnum(c) THEN FALSE
  ELSE IF Contains("-_.~", c) THEN FALSE
  ELSE IF Contains("$&+,/:;=?@", c) THEN
         CASE mode = "path" -> c = "?"
           [] mode = "query" -> TRUE
           [] OTHER -> FALSE
  ELSE IF mode = "fragment" /\ Contains("!()*", c) THEN FALSE
  ELSE TRUE

\* s with every "+" replaced by a space
RECURSIVE plusToSpace(_)
plusToSpace(s) ==
  IF Len(s) = 0 THEN ""
  ELSE IF Len(s) = 1 THEN (IF s = "+" THEN " " ELSE s)
  ELSE plusToSpace(SubSeq(s, 1, Len(s) \div 2))
       \o plusToSpace(SubSeq(s, (Len(s) \div 2) + 1, Len(s)))

\* url.unescape: [ok, val]; a "%" not followed by two hex digits is an error
RECURSIVE unescape(_, _)
unescape(s, mode) ==
  LET c == Cut(s, "%")
      plain == IF mode = "query" THEN plusToSpace(c.before) ELSE c.before
  IN IF ~c.found THEN [ok |-> TRUE, val |-> plain]
     ELSE IF Len(c.after) < 2 \/ ~ishex(At(c.after, 1)) \/ ~ishex(At(c.after, 2))
     THEN [ok |-> FALSE, val |-> ""]
     ELSE LET r == unescape(SubSeq(c.after, 3, Len(c.after)), mode) IN
          [ok |-> r.ok,
           val |-> IF r.ok
                   THEN plain \o Chr(16 * unhex(At(c.after, 1)) + unhex(At(c.after, 2)))
                        \o r.val
                   ELSE ""]

\* url.escape
RECURSIVE escape(_, _)
escape(s, mode) ==
  IF Len(s) = 0 THEN ""
  ELSE IF Len(s) = 1 THEN
    (IF ~shouldEscape(s, mode) THEN s
     ELSE IF s = " " /\ mode = "query" THEN "+"
     ELSE "%" \o At(HexDigits, (Ord(s) \div 16) + 1)
              \o At(HexDigits, (Ord(s) % 16) + 1))
  ELSE escape(SubSeq(s, 1, Len(s) \div 2), mode)
       \o escape(SubSeq(s, (Len(s) \div 2) + 1, Len(s)), mode)

\* url.validEncoded
validEncoded(s, mode) ==
  \A i \in 1..Len(s) :
    \/ Contains("!$&'()*+,;=:@[]%", At(s, i))
    \/ ~shouldEscape(At(s, i), mode)

\* url.Values: a function from the parameter names to the sequences of their
\* values
EmptyValues == [n \in {} |-> <<>>]

ValuesAdd(m, k, v) ==
  IF k \in DOMAIN m THEN [m EXCEPT ![k] = Append(@, v)] ELSE m @@ (k :> <<v>>)

\* url.Values.Get: the first value of the name, "" if none
ValuesGet(m, k) == IF k \in DOMAIN m /\ Len(m[k]) > 0 THEN m[k][1] ELSE ""

ValuesDel(m, k) == [n \in DOMAIN m \ {k} |-> m[n]]

ValuesSet(m, k, v) == [n \in DOMAIN m \cup {k} |-> IF n = k THEN <<v>> ELSE m[n]]

\* url.parseQuery, its error dropped as URL.Query() drops it: a piece that
\* holds a semicolon or an invalid escape is skipped
RECURSIVE parseQuery(_, _)
parseQuery(m, query) ==
  IF Len(query) = 0 THEN m
  ELSE LET c == Cut(query, "&")
           kv == Cut(c.before, "=")
           k == unescape(kv.before, "query")
           v == unescape(kv.after, "query")
       IN IF Contains(c.before, ";") THEN parseQuery(m, c.after)
          ELSE IF Len(c.before) = 0 THEN parseQuery(m, c.after)
          ELSE IF ~k.ok \/ ~v.ok THEN parseQuery(m, c.after)
          ELSE parseQuery(ValuesAdd(m, k.val, v.val), c.after)

\* URL.Query()
Query(rawQuery) == parseQuery(EmptyValues, rawQuery)

\* byte-wise string order, as sort.Strings
RECURSIVE StrLess(_, _)
StrLess(a, b) ==
  IF Len(b) = 0 THEN FALSE
  ELSE IF Len(a) = 0 THEN TRUE
  ELSE IF At(a, 1) = At(b, 1) THEN StrLess(Tail(a), Tail(b))
  ELSE Ord(At(a, 1)) < Ord(At(b, 1))

RECURSIVE SortStrings(_)
SortStrings(S) ==
  IF S = {} THEN <<>>
  ELSE LET lo == CHOOSE a \in S : \A b \in S \ {a} : StrLess(a, b)
       IN <<lo>> \o SortStrings(S \ {lo})

RECURSIVE EncodeOne(_, _)
EncodeOne(k, vs) ==
  IF Len(vs) = 0 THEN ""
  ELSE escape(k, "query") \o "=" \o escape(vs[1], "query")
       \o (IF Len(vs) > 1 THEN "&" ELSE "") \o EncodeOne(k, Tail(vs))

RECURSIVE EncodeKeys(_, _)
EncodeKeys(m, ks) ==
  IF Len(ks) = 0 THEN ""
  ELSE LET rest == EncodeKeys(m, Tail(ks))
           one == EncodeOne(ks[1], m[ks[1]])
       IN IF Len(one) = 0 THEN rest
          ELSE IF Len(rest) = 0 THEN one
          ELSE one \o "&" \o rest

\* url.Values.Encode: "name=value" pairs joined by "&", sorted by name
Encode(m) == EncodeKeys(m, SortStrings(DOMAIN m))

PROXY_URL == "https://generativelanguage.googleapis.com"

\* url.Parse(PROXY_URL + target) for a target that is empty or starts with
\* "/", "?" or "#": the scheme and the host are those of PROXY_URL, the rest
\* is cut at the first "#" and then at the first "?"
Parse(target) ==
  LET f == Cut(target, "#")
      onlyMark == Len(f.before) > 0 /\ Index(f.before, "?") = Len(f.before)
      q == Cut(f.before, "?")
      path == unescape(q.before, "path")
      frag == unescape(f.after, "fragment")
  IN IF Contains(f.before, CTL) \/ ~path.ok \/ ~frag.ok
     THEN [ok |-> FALSE]
     ELSE [ok |-> TRUE,
           Path |-> path.val,
           RawPath |-> IF escape(path.val, "path") = q.before THEN ""
                       ELSE q.before,
           ForceQuery |-> onlyMark,
           RawQuery |-> q.after,
           Fragment |-> frag.val,
           RawFragment |-> IF escape(frag.val, "fragment") = f.after THEN ""
                           ELSE f.after]

\* URL.EscapedPath
EscapedPath(u) ==
  IF /\ Len(u.RawPath) > 0
     /\ validEncoded(u.RawPath, "path")
     /\ unescape(u.RawPath, "path").ok
     /\ unescape(u.RawPath, "path").val = u.Path
  THEN u.RawPath
  ELSE escape(u.Path, "path")

\* URL.EscapedFragment
EscapedFragment(u) ==
  IF /\ Len(u.RawFragment) > 0
     /\ validEncoded(u.RawFragment, "fragment")
     /\ unescape(u.RawFragment, "fragment").ok
     /\ unescape(u.RawFragment, "fragment").val = u.Fragment
  THEN u.RawFragment
  ELSE escape(u.Fragment, "fragment")

\* URL.String for a URL whose scheme and host are those of PROXY_URL
String(u) ==
  PROXY_URL
  \o (IF Len(EscapedPath(u)) > 0 /\ At(EscapedPath(u), 1) # "/"
      THEN "/" ELSE "")
  \o EscapedPath(u)
  \o (IF u.ForceQuery \/ Len(u.RawQuery) > 0 THEN "?" \o u.RawQuery ELSE "")
  \o (IF Len(u.Fragment) > 0 THEN "#" \o EscapedFragment(u) ELSE "")

\* ------------------------------------------------------------------------
\* encoding/json and fmt, as called by the handlers
\* ------------------------------------------------------------------------
isDigits(s) == Len(s) > 0 /\ \A i \in 1..Len(s) : Contains("0123456789", At(s, i))

isQuoted(s) == Len(s) >= 2 /\ At(s, 1) = "\"" /\ At(s, Len(s)) = "\""

\* one JSON value without nesting: a string, a number or null
jsonValue(s) ==
  IF isQuoted(s) /\ ~Contains(SubSeq(s, 2, Len(s) - 1), "\"")
  THEN [ok |-> TRUE, t |-> "string", v |-> SubSeq(s, 2, Len(s) - 1)]
  ELSE IF isDigits(s) THEN [ok |-> TRUE, t |-> "number", v |-> s]
  ELSE IF s = "null" THEN [ok |-> TRUE, t |-> "null", v |-> ""]
  ELSE [ok |-> FALSE, t |-> "", v |-> ""]

RECURSIVE jsonMembers(_, _)
jsonMembers(obj, ms) ==
  IF Len(ms) = 0 THEN [ok |-> TRUE, obj |-> obj]
  ELSE LET kv == Cut(TrimSpace(ms[1]), ":")
           k == jsonValue(TrimSpace(kv.before))
           v == jsonValue(TrimSpace(kv.after))
       IN IF ~kv.found \/ ~k.ok \/ k.t # "string" \/ ~v.ok
          THEN [ok |-> FALSE, obj |-> obj]
          ELSE jsonMembers([n \in DOMAIN obj \cup {k.v} |->
                              IF n = k.v THEN v ELSE obj[n]], Tail(ms))

\* the JSON document s read as an object whose members are strings, numbers
\* or null, none of them holding a comma, a colon or an escape
jsonObject(s) ==
  LET t == TrimSpace(s)
      inner == TrimSpace(SubSeq(t, 2, Len(t) - 1))
  IN IF t = "null" THEN [ok |-> TRUE, obj |-> EmptyValues]
     ELSE IF Len(t) < 2 \/ At(t, 1) # "{" \/ At(t, Len(t)) # "}"
     THEN [ok |-> FALSE, obj |-> EmptyValues]
     ELSE IF Len(inner) = 0 THEN [ok |-> TRUE, obj |-> EmptyValues]
     ELSE jsonMembers(EmptyValues, Split(inner, ","))

\* json.Unmarshal into map[string]interface{}: any object decodes
UnmarshalAny(s) == jsonObject(s)

\* json.Unmarshal into map[string]string: a number member is an error, a null
\* member decodes to ""
UnmarshalStrings(s) ==
  LET j == jsonObject(s) IN
  [ok |-> j.ok /\ \A n \in DOMAIN j.obj : j.obj[n].t # "number",
   obj |-> [n \in DOMAIN j.obj |-> j.obj[n].v]]

\* the JSON string literal of s as json.Marshal writes it
RECURSIVE jsonQuoteBody(_)
jsonQuoteBody(s) ==
  IF Len(s) = 0 THEN ""
  ELSE IF Len(s) = 1 THEN
    (IF s = "\"" THEN "\\\""
     ELSE IF s = "\\" THEN "\\\\"
     ELSE IF s = "<" THEN "\\u003c"
     ELSE IF s = ">" THEN "\\u003e"
     ELSE IF s = "&" THEN "\\u0026"
     ELSE IF s = CTL THEN "\\n"
     ELSE s)
  ELSE jsonQuoteBody(SubSeq(s, 1, Len(s) \div 2))
       \o jsonQuoteBody(SubSeq(s, (Len(s) \div 2) + 1, Len(s)))

RECURSIVE Itoa(_)
Itoa(n) == IF n < 10 THEN At("0123456789", n + 1)
           ELSE Itoa(n \div 10) \o At("0123456789", (n % 10) + 1)

\* json.Marshal(Response{Code, Body})
Marshal(resp) ==
  "{\"code\":" \o Itoa(resp.Code) \o ",\"body\":\"" \o jsonQuoteBody(resp.Body) \o "\"}"

\* fmt.Fprintf(w, format) with no operand: a verb prints as %!v(MISSING), "%%"
\* as "%", and a "%" that ends the format as %!(NOVERB)
RECURSIVE SkipFlags(_)
SkipFlags(s) ==
  IF Len(s) > 0 /\ Contains("#0+- 123456789.", At(s, 1)) THEN SkipFlags(Tail(s))
  ELSE s

RECURSIVE Fprintf(_)
Fprintf(format) ==
  LET c == Cut(format, "%")
      r == SkipFlags(c.after)
  IN IF ~c.found THEN format
     ELSE IF Len(r) = 0 THEN c.before \o "%!(NOVERB)"
     ELSE IF At(r, 1) = "%" THEN c.before \o "%" \o Fprintf(Tail(r))
     ELSE c.before \o "%!" \o At(r, 1) \o "(MISSING)" \o Fprintf(Tail(r))

\* ------------------------------------------------------------------------
\* util/redis: reading the fallback list from the environment
\* ------------------------------------------------------------------------
isShellSpecialVar(c) == Contains("*#$@!?-0123456789", c)

RECURSIVE NameLen(_)
NameLen(s) ==
  IF Len(s) > 0 /\ (isAlnum(At(s, 1)) \/ At(s, 1) = "_")
  THEN 1 + NameLen(Tail(s)) ELSE 0

\* os.getShellName: the variable name that starts s and the bytes it takes
getShellName(s) ==
  IF At(s, 1) = "{" THEN
    IF Len(s) > 2 /\ isShellSpecialVar(At(s, 2)) /\ At(s, 3) = "}"
    THEN [name |-> At(s, 2), w |-> 3]
    ELSE LET i == IndexFrom(s, "}", 2) IN
         IF i = 0 THEN [name |-> "", w |-> 1]
         ELSE IF i = 2 THEN [name |-> "", w |-> 2]
         ELSE [name |-> SubSeq(s, 2, i - 1), w |-> i]
  ELSE IF isShellSpecialVar(At(s, 1)) THEN [name |-> At(s, 1), w |-> 1]
  ELSE [name |-> SubSeq(s, 1, NameLen(s)), w |-> NameLen(s)]

\* os.ExpandEnv in an environment env (a function from names to values)
RECURSIVE ExpandEnv(_, _)
ExpandEnv(s, env) ==
  LET c == Cut(s, "$")
      g == getShellName(c.after)
  IN IF ~c.found \/ Len(c.after) = 0 THEN s
     ELSE c.before
          \o (IF Len(g.name) = 0 THEN (IF g.w > 0 THEN "" ELSE "$")
              ELSE IF g.name \in DOMAIN env THEN env[g.name] ELSE "")
          \o ExpandEnv(SubSeq(c.after, 1 + g.w, Len(c.after)), env)

cleanAPIKeyString(keyStr, env) == ExpandEnv(keyStr, env)

RECURSIVE NonEmpty(_)
NonEmpty(parts) ==
  IF Len(parts) = 0 THEN <<>>
  ELSE (IF Len(parts[1]) > 0 THEN <<parts[1]>> ELSE <<>>) \o NonEmpty(Tail(parts))

RECURSIVE TrimAll(_)
TrimAll(parts) ==
  IF Len(parts) = 0 THEN <<>> ELSE <<TrimSpace(parts[1])>> \o TrimAll(Tail(parts))

splitAndTrim(s, sep) == NonEmpty(TrimAll(Split(s, sep)))

splitAPIKeys(keyStr) == NonEmpty(splitAndTrim(keyStr, ","))

\* getAPIKeysFromEnv for the value keyStr of API_KEY
getAPIKeysFromEnv(keyStr) ==
  IF Len(keyStr) = 0 THEN <<>>
  ELSE splitAPIKeys(cleanAPIKeyString(keyStr, [n \in {"API_KEY"} |-> keyStr]))

\* ------------------------------------------------------------------------
\* The processes and their state
\* ------------------------------------------------------------------------
\* process 0 is main(), which runs InitializeAPIKeys and then serves; the
\* others are the goroutines net/http runs MainHandle on
Main == 0

Workers == 1..NumWorkers

Procs == {Main} \cup Workers

\* another instance of the program that starts against the same Redis list;
\* of it only InitializeAPIKeys is modelled
Peer == NumWorkers + 1

\* the processes that run InitializeAPIKeys
Inits == {Main, Peer}

\* owner of a mutex nobody holds
Free == -1

NoErr == ""

VARIABLES
  jsonRecords,  \* TRUE: the redis package that stores JSON records
  API_KEY,      \* the value of the environment variable API_KEY
  reqSet,       \* the inbound requests that may arrive
  respSet,      \* the responses the upstream may give
  active,       \* the workers net/http hands requests to
  peers,        \* the other instances that start while this one does
  upFaults,     \* TRUE: the connection to the upstream may fail
  budget,       \* inbound requests still to arrive
  store,        \* the Redis list under apiKeysKey
  client,       \* redis.client: "unset", "conn" or "nil"
  onceDone,     \* clientOnce: its function has run
  onceMu,       \* clientOnce: owner of its mutex
  currentPos,   \* redis.currentPos
  posMutex,     \* owner of redis.posMutex
  pc,           \* position of each process
  initErr,      \* what InitializeAPIKeys returned to main, per instance
  req,          \* the inbound request of each worker
  input,        \* SendToGeminiInput of each worker
  count,        \* local count of GetAPIKey, getFallbackAPIKey, InitializeAPIKeys
  tmp,          \* the value of currentPos a worker has read
  position,     \* local position
  keys,         \* local keys (getFallbackAPIKey) or apiKeys still to push
  apiKey,       \* the credential SendToGemini resolved
  fullUrl,      \* the upstream URL SendToGemini built
  result,       \* what SendToGemini returned: [err, resp]
  written,      \* what each worker wrote to its http.ResponseWriter
  upstream,     \* the upstream requests each worker issued for its request
  logs,         \* the log lines that carry data of the request of each worker
  cancelled,    \* the context of the inbound request is done
  attempts,     \* history: runs of the function given to clientOnce.Do
  fell,         \* history: the failure of the durable branch in the current call
  sel,          \* history: the selections, in the order of their cursor writes
  ticket,       \* history: number of writes of currentPos so far
  seen,         \* history: the ticket a worker saw when it read currentPos
  adv,          \* history: writes of currentPos by the current request
  invoked,      \* history: the current request called redis.GetAPIKey
  store0        \* history: the Redis list when the process started

vars == <<jsonRecords, API_KEY, reqSet, respSet, active, peers, upFaults, budget, store, client,
          onceDone, onceMu, currentPos, posMutex, pc, initErr, req, input, count, tmp,
          position, keys, apiKey, fullUrl, result, written, upstream, logs, cancelled,
          attempts, fell, sel, ticket, seen, adv, invoked, store0>>

config == <<jsonRecords, API_KEY, reqSet, respSet, active, peers, upFaults>>

onceVars == <<client, onceDone, onceMu, attempts>>

cursorVars == <<currentPos, posMutex>>

selLocals == <<count, tmp, position, keys>>

sendLocals == <<req, input, apiKey, fullUrl, result, written, upstream, logs, cancelled>>

history == <<sel, ticket, seen, adv, invoked, store0, fell>>

\* ------------------------------------------------------------------------
\* The inputs
\* ------------------------------------------------------------------------
RecKey == "{\"key\":\"ABCDEFGH12\"}"

RecNoKey == "{\"proxy\":\"p\"}"

RecEmptyKey == "{\"key\":\"\"}"

RecNumKey == "{\"key\":5}"

\* values of API_KEY
EnvChoices ==
  { "",
    "ABCDEFGH12",
    " ABCDEFGH12, abcd1234 ,,short",
    RecKey \o "," \o RecNoKey \o ",plainkey99," \o RecEmptyKey }

\* what the Redis list holds when the process starts
StoreChoices ==
  { <<>>,
    <<RecKey>>,
    <<RecKey, RecNumKey, "ABCDEFGH12">> }

Req(method, path, rawQuery) ==
  [Method |-> method, Path |-> path, RawQuery |-> rawQuery]

\* inbound requests: r.Method, r.URL.Path (decoded) and r.URL.RawQuery
Requests ==
  { Req("GET", "/v1/models", "foo=1"),
    Req("POST", "/v1/foo", "key=override99&x=1"),
    Req("GET", "/v1/foo", "key=leaked&x=1&x=2"),
    Req("GET", "/v1/foo", "x=1&key=&key=second99"),
    Req("GET", "/v1/foo", "a=1;b=2&x=%zz&y=a+b%26c"),
    Req("GET", "/v1/a b", ""),
    Req("GET", "/v1?foo", "x=1"),
    Req("GET", "/v1#foo", "x=1"),
    Req("GET", "/v1%41", "x=1"),
    Req("GET", "/v1%", "key=override99"),
    Req("GET", "/v1%", "x=1"),
    Req("GET", "/v1/%d", "key=a%25s") }

OkResponse ==
  [StatusCode |-> 200, Body |-> "{}",
   Headers |-> [n \in {"Content-Type"} |-> <<"application/json">>]]

UpstreamResponses ==
  { OkResponse,
    [StatusCode |-> 429, Body |-> "slow down",
     Headers |-> [n \in {"X-Content-From", "Set-Cookie"} |->
                    IF n = "Set-Cookie" THEN <<"a=1", "b=2">> ELSE <<"upstream">>]] }

NoResp == [StatusCode |-> 0, Body |-> "", Headers |-> EmptyValues]

NoInput == [Url |-> "", APIKey |-> "", Method |-> ""]

InitCommon ==
  /\ client = "unset"
  /\ onceDone = FALSE
  /\ onceMu = Free
  /\ currentPos = 0
  /\ posMutex = Free
  /\ pc = [p \in Procs \cup {Peer} |->
              IF p = Main THEN "GetClient"
              ELSE IF p = Peer THEN (IF Peer \in peers THEN "I_LLen" ELSE "off")
              ELSE "idle"]
  /\ initErr = [p \in Inits |-> "running"]
  /\ req = [w \in Workers |-> Req("", "", "")]
  /\ input = [w \in Workers |-> NoInput]
  /\ count = [p \in Procs \cup {Peer} |-> 0]
  /\ tmp = [w \in Workers |-> 0]
  /\ position = [w \in Workers |-> 0]
  /\ keys = [p \in Procs \cup {Peer} |-> <<>>]
  /\ apiKey = [w \in Workers |-> ""]
  /\ fullUrl = [w \in Workers |-> ""]
  /\ result = [w \in Workers |-> [err |-> NoErr, resp |-> NoResp]]
  /\ written = [w \in Workers |-> <<>>]
  /\ upstream = [w \in Workers |-> <<>>]
  /\ logs = [w \in Workers |-> <<>>]
  /\ cancelled = [w \in Workers |-> FALSE]
  /\ attempts = 0
  /\ fell = [w \in Workers |-> "no"]
  /\ sel = <<>>
  /\ ticket = 0
  /\ seen = [w \in Workers |-> 0]
  /\ adv = [w \in Workers |-> 0]
  /\ invoked = [w \in Workers |-> FALSE]
  /\ store0 = store

\* concurrent workers, two plain requests
Init ==
  /\ jsonRecords \in BOOLEAN
  /\ API_KEY = "ABCDEFGH12,abcd1234"
  /\ store \in {<<>>, <<RecKey, RecNumKey>>}
  /\ reqSet = {Req("GET", "/v1/models", "foo=1"),
               Req("POST", "/v1/foo", "key=override99&x=1")}
  /\ respSet = {OkResponse}
  /\ active = Workers
  /\ peers = {}
  /\ upFaults = FALSE
  /\ budget = MaxReq
  /\ InitCommon

\* one worker, more requests, every environment and every stored list
InitSeq ==
  /\ jsonRecords \in BOOLEAN
  /\ API_KEY \in EnvChoices
  /\ store \in StoreChoices
  /\ reqSet = {Req("GET", "/v1/models", "foo=1")}
  /\ respSet = {OkResponse}
  /\ active = {1}
  /\ peers = {}
  /\ upFaults = FALSE
  /\ budget = MaxSeqReq
  /\ InitCommon

\* one worker, one request, every inbound URL and every upstream response
InitUrl ==
  /\ jsonRecords \in BOOLEAN
  /\ API_KEY \in {"", "ABCDEFGH12,short"}
  /\ store \in {<<>>, <<RecKey, RecNumKey>>}
  /\ reqSet = Requests
  /\ respSet = UpstreamResponses
  /\ active = {1}
  /\ peers = {}
  /\ upFaults = TRUE
  /\ budget = 1
  /\ InitCommon

\* two instances start against the same Redis list; one worker, two requests
InitPeers ==
  /\ jsonRecords \in BOOLEAN
  /\ API_KEY \in {"", "ABCDEFGH12,abcd1234", RecKey \o "," \o RecNoKey}
  /\ store \in {<<>>, <<RecKey>>}
  /\ reqSet = {Req("GET", "/v1/models", "foo=1"),
               Req("POST", "/v1/foo", "key=override99&x=1")}
  /\ respSet = {OkResponse}
  /\ active = {1}
  /\ peers = {Peer}
  /\ upFaults = FALSE
  /\ budget = MaxPeerReq
  /\ InitCommon

\* ------------------------------------------------------------------------
\* redis.GetClient: clientOnce.Do
\* ------------------------------------------------------------------------
\* Once.Do: the fast path when the function has run, else take the mutex
OnceDo(p) ==
  /\ pc[p] = "GetClient"
  /\ IF onceDone
     THEN /\ pc' = [pc EXCEPT ![p] = "gotClient"]
          /\ UNCHANGED onceMu
     ELSE /\ onceMu = Free
          /\ onceMu' = p
          /\ pc' = [pc EXCEPT ![p] = "doSlow"]
  /\ UNCHANGED <<config, budget, store, client, onceDone, attempts, cursorVars,
                 initErr, selLocals, sendLocals, history>>

\* the function passed to Do: create the client and ping; a failed ping sets
\* client to nil.  It runs only if no other caller ran it before.
OnceRun(p) ==
  /\ pc[p] = "doSlow"
  /\ IF onceDone
     THEN UNCHANGED <<client, attempts>>
     ELSE /\ \E ping \in BOOLEAN : client' = IF ping THEN "conn" ELSE "nil"
          /\ attempts' = attempts + 1
  /\ pc' = [pc EXCEPT ![p] = "onceExit"]
  /\ UNCHANGED <<config, budget, store, onceDone, onceMu, cursorVars, initErr,
                 selLocals, sendLocals, history>>

\* doneAfterRun that leaves the flag as it was
doneAfterRunKept(d) == d

\* Once.done after the function has run
doneAfterRun(d) == TRUE

\* the deferred calls of doSlow: mark done, release the mutex
OnceExit(p) ==
  /\ pc[p] = "onceExit"
  /\ onceDone' = doneAfterRun(onceDone)
  /\ onceMu' = Free
  /\ pc' = [pc EXCEPT ![p] = "gotClient"]
  /\ UNCHANGED <<config, budget, store, client, attempts, cursorVars, initErr,
                 selLocals, sendLocals, history>>

\* ------------------------------------------------------------------------
\* redis.InitializeAPIKeys, called by main() before it serves
\* ------------------------------------------------------------------------
\* backingAvailable that never finds the backing
backingAvailableNever(c) == FALSE

\* the test client != nil that InitializeAPIKeys and GetAPIKey make
backingAvailable(c) == c # "nil"

\* main() after InitializeAPIKeys returns an error: it stops
afterInitAbort(err) == IF err = NoErr THEN "serve" ELSE "exit"

\* main() after InitializeAPIKeys returns: the error is logged and
\* http.ListenAndServe is called whatever it is
afterInit(err) == "serve"

I_Client ==
  /\ pc[Main] = "gotClient"
  /\ IF ~backingAvailable(client)
     THEN /\ initErr' = [initErr EXCEPT ![Main] = NoErr]
          /\ pc' = [pc EXCEPT ![Main] = afterInit(NoErr)]
     ELSE /\ pc' = [pc EXCEPT ![Main] = "I_LLen"]
          /\ UNCHANGED initErr
  /\ UNCHANGED <<config, budget, store, onceVars, cursorVars,
                 selLocals, sendLocals, history>>

\* keysExist off by one
keysExistOffByOne(n) == n > 1

\* the test "keys already exist, don't reinitialize"
keysExist(n) == n > 0

\* LLen, the two early returns and the read of the environment
I_LLen(p) ==
  /\ pc[p] = "I_LLen"
  /\ \E ioerr \in BOOLEAN :
       IF ioerr
       THEN /\ initErr' = [initErr EXCEPT ![p] = "LLen"]
            /\ pc' = [pc EXCEPT ![p] = afterInit("LLen")]
            /\ UNCHANGED <<count, keys>>
       ELSE /\ count' = [count EXCEPT ![p] = Len(store)]
            /\ IF keysExist(Len(store)) \/ Len(getAPIKeysFromEnv(API_KEY)) = 0
               THEN /\ initErr' = [initErr EXCEPT ![p] = NoErr]
                    /\ pc' = [pc EXCEPT ![p] = afterInit(NoErr)]
                    /\ UNCHANGED keys
               ELSE /\ keys' = [keys EXCEPT ![p] = getAPIKeysFromEnv(API_KEY)]
                    /\ pc' = [pc EXCEPT ![p] = "I_Push"]
                    /\ UNCHANGED initErr
  /\ UNCHANGED <<config, budget, store, onceVars, cursorVars, tmp, position,
                 sendLocals, history>>

\* the check the JSON package makes on a key before it is pushed
validRecord(key) ==
  /\ UnmarshalAny(key).ok
  /\ "key" \in DOMAIN UnmarshalAny(key).obj

\* one iteration of the loop over apiKeys
I_Push(p) ==
  /\ pc[p] = "I_Push"
  /\ LET key == Head(keys[p])
         last == Len(keys[p]) = 1
     IN IF jsonRecords /\ ~validRecord(key)
        THEN /\ keys' = [keys EXCEPT ![p] = Tail(@)]
             /\ pc' = [pc EXCEPT ![p] = IF last THEN afterInit(NoErr) ELSE "I_Push"]
             /\ initErr' = IF last THEN [initErr EXCEPT ![p] = NoErr] ELSE initErr
             /\ UNCHANGED store
        ELSE \E ioerr \in BOOLEAN :
               IF ioerr
               THEN /\ initErr' = [initErr EXCEPT ![p] = "RPush"]
                    /\ pc' = [pc EXCEPT ![p] = afterInit("RPush")]
                    /\ UNCHANGED <<store, keys>>
               ELSE /\ store' = Append(store, key)
                    /\ keys' = [keys EXCEPT ![p] = Tail(@)]
                    /\ pc' = [pc EXCEPT ![p] = IF last THEN afterInit(NoErr) ELSE "I_Push"]
                    /\ initErr' = IF last THEN [initErr EXCEPT ![p] = NoErr] ELSE initErr
  /\ UNCHANGED <<config, budget, onceVars, cursorVars, count, tmp, position,
                 sendLocals, history>>

\* ------------------------------------------------------------------------
\* api.MainHandle up to its call of handler.SendToGemini
\* ------------------------------------------------------------------------
\* api.getFromQuery(r, key, defaultV)
getFromQuery(r, key, defaultV) ==
  IF Len(ValuesGet(Query(r.RawQuery), key)) = 0 THEN defaultV
  ELSE ValuesGet(Query(r.RawQuery), key)

\* the SendToGeminiInput MainHandle builds
MakeInput(r) ==
  [Url |-> r.Path \o (IF Len(r.RawQuery) > 0 THEN "?" \o r.RawQuery ELSE ""),
   APIKey |-> getFromQuery(r, "key", ""),
   Method |-> r.Method]

\* maskAPIKey of package api
apiMaskAPIKey(key) ==
  IF key = "" THEN "<empty>"
  ELSE IF Len(key) < 8 THEN "<too_short>"
  ELSE SubSeq(key, 1, 4) \o "****" \o SubSeq(key, Len(key) - 3, Len(key))

\* maskAPIKey that takes a secret of 8 characters for a short one
maskAPIKeyShort8(key) ==
  IF Len(key) = 0 THEN "<empty>"
  ELSE IF Len(key) <= 8 THEN "<too_short>"
  ELSE SubSeq(key, 1, 4) \o "****" \o SubSeq(key, Len(key) - 3, Len(key))

\* maskAPIKey of package handler
maskAPIKey(key) ==
  IF Len(key) = 0 THEN "<empty>"
  ELSE IF Len(key) < 8 THEN "<too_short>"
  ELSE SubSeq(key, 1, 4) \o "****" \o SubSeq(key, Len(key) - 3, Len(key))

\* fmt's %v of a []string: the elements between brackets, separated by spaces
RECURSIVE FormatSlice(_)
FormatSlice(vs) ==
  IF Len(vs) = 0 THEN ""
  ELSE vs[1] \o (IF Len(vs) > 1 THEN " " ELSE "") \o FormatSlice(Tail(vs))

RECURSIVE FormatKeys(_, _)
FormatKeys(m, ks) ==
  IF Len(ks) = 0 THEN ""
  ELSE ks[1] \o ":[" \o FormatSlice(m[ks[1]]) \o "]"
       \o (IF Len(ks) > 1 THEN " " ELSE "") \o FormatKeys(m, Tail(ks))

\* fmt's %v of a url.Values: map[name:[values] ...], sorted by name
FormatValues(m) == "map[" \o FormatKeys(m, SortStrings(DOMAIN m)) \o "]"

\* the lines MainHandle logs before it calls SendToGemini (the line with the
\* request headers is left out: requests of the model carry no header)
RequestLog(r) ==
  << "Received request - Method: " \o r.Method \o ", Path: " \o r.Path,
     "Request query parameters: " \o FormatValues(Query(r.RawQuery)),
     "API Key from query: " \o apiMaskAPIKey(getFromQuery(r, "key", "")),
     "start request: " \o MakeInput(r).Url >>

MainHandle(w) ==
  /\ pc[Main] = "serve"
  /\ w \in active
  /\ pc[w] = "idle"
  /\ budget > 0
  /\ budget' = budget - 1
  /\ \E r \in reqSet :
       /\ req' = [req EXCEPT ![w] = r]
       /\ input' = [input EXCEPT ![w] = MakeInput(r)]
       /\ logs' = [logs EXCEPT ![w] = RequestLog(r)]
  /\ apiKey' = [apiKey EXCEPT ![w] = ""]
  /\ fullUrl' = [fullUrl EXCEPT ![w] = ""]
  /\ result' = [result EXCEPT ![w] = [err |-> NoErr, resp |-> NoResp]]
  /\ written' = [written EXCEPT ![w] = <<>>]
  /\ upstream' = [upstream EXCEPT ![w] = <<>>]
  /\ cancelled' = [cancelled EXCEPT ![w] = FALSE]
  /\ adv' = [adv EXCEPT ![w] = 0]
  /\ invoked' = [invoked EXCEPT ![w] = FALSE]
  /\ fell' = [fell EXCEPT ![w] = "no"]
  /\ pc' = [pc EXCEPT ![w] = "getAPIKey"]
  /\ UNCHANGED <<config, store, onceVars, cursorVars, initErr, selLocals,
                 sel, ticket, seen, store0>>

\* ------------------------------------------------------------------------
\* handler.getAPIKey and redis.GetAPIKey
\* ------------------------------------------------------------------------
\* handler.getAPIKey: the credential of the request if it has one, else the
\* selector
\* hasOverride that takes only a credential long enough to be forwarded
hasOverrideLong(key) == Len(key) >= 8

\* the test on in.APIKey
hasOverride(key) == Len(key) > 0

getAPIKey(w) ==
  /\ pc[w] = "getAPIKey"
  /\ IF hasOverride(input[w].APIKey)
     THEN /\ apiKey' = [apiKey EXCEPT ![w] = input[w].APIKey]
          /\ pc' = [pc EXCEPT ![w] = "build"]
          /\ UNCHANGED invoked
     ELSE /\ pc' = [pc EXCEPT ![w] = "GetClient"]
          /\ invoked' = [invoked EXCEPT ![w] = TRUE]
          /\ UNCHANGED apiKey
  /\ UNCHANGED <<config, budget, store, onceVars, cursorVars, initErr, selLocals,
                 req, input, fullUrl, result, written, upstream, logs, cancelled,
                 sel, ticket, seen, adv, store0, fell>>

\* log.Info and log.Error of the request of worker w
Log(w, line) == logs' = [logs EXCEPT ![w] = Append(@, line)]

G_Client(w) ==
  /\ pc[w] = "gotClient"
  /\ pc' = [pc EXCEPT ![w] = IF backingAvailable(client) THEN "LLen" ELSE "fallback"]
  /\ UNCHANGED <<config, budget, store, onceVars, cursorVars, initErr, selLocals,
                 sendLocals, history>>

\* client.LLen: an error or a count of 0 goes to the fallback
G_LLen(w) ==
  /\ pc[w] = "LLen"
  /\ \E ioerr \in BOOLEAN :
       IF ioerr
       THEN /\ pc' = [pc EXCEPT ![w] = "fallback"]
            /\ fell' = [fell EXCEPT ![w] = "count"]
            /\ UNCHANGED count
       ELSE IF Len(store) = 0
       THEN /\ pc' = [pc EXCEPT ![w] = "fallback"]
            /\ UNCHANGED <<count, fell>>
       ELSE /\ count' = [count EXCEPT ![w] = Len(store)]
            /\ pc' = [pc EXCEPT ![w] = "lock"]
            /\ UNCHANGED fell
  /\ UNCHANGED <<config, budget, store, onceVars, cursorVars, initErr, tmp,
                 position, keys, sendLocals, sel, ticket, seen, adv, invoked,
                 store0>>

\* Lock that does not wait for the owner to release
LockNoWait(w, from, to) ==
  /\ pc[w] = from
  /\ posMutex' = w
  /\ pc' = [pc EXCEPT ![w] = to]
  /\ UNCHANGED <<config, budget, store, onceVars, currentPos, initErr, selLocals,
                 sendLocals, history>>

\* sync.Mutex.Lock on posMutex
Lock(w, from, to) ==
  /\ pc[w] = from
  /\ posMutex = Free
  /\ posMutex' = w
  /\ pc' = [pc EXCEPT ![w] = to]
  /\ UNCHANGED <<config, budget, store, onceVars, currentPos, initErr, selLocals,
                 sendLocals, history>>

\* sync.Mutex.Unlock on posMutex
Unlock(w, from, to) ==
  /\ pc[w] = from
  /\ posMutex' = Free
  /\ pc' = [pc EXCEPT ![w] = to]
  /\ UNCHANGED <<config, budget, store, onceVars, currentPos, initErr, selLocals,
                 sendLocals, history>>

G_Lock(w) == Lock(w, "lock", "read")

\* the read of currentPos in currentPos = (currentPos + 1) % int(count)
G_Read(w) ==
  /\ pc[w] = "read"
  /\ tmp' = [tmp EXCEPT ![w] = currentPos]
  /\ seen' = [seen EXCEPT ![w] = ticket]
  /\ pc' = [pc EXCEPT ![w] = "write"]
  /\ UNCHANGED <<config, budget, store, onceVars, cursorVars, initErr, count,
                 position, keys, sendLocals, sel, ticket, adv, invoked, store0,
                 fell>>

\* NextPos without the increment
NextPosStuck(cur, n) == cur % n

\* the position the durable branch selects from the value it read
NextPos(cur, n) == (cur + 1) % n

\* the write of currentPos, and position := currentPos
G_Write(w) ==
  /\ pc[w] = "write"
  /\ currentPos' = NextPos(tmp[w], count[w])
  /\ position' = [position EXCEPT ![w] = NextPos(tmp[w], count[w])]
  /\ sel' = Append(sel, [w |-> w, branch |-> "durable", n |-> count[w],
                         pre |-> tmp[w], pos |-> NextPos(tmp[w], count[w]),
                         ticket |-> seen[w], nth |-> adv[w] + 1])
  /\ ticket' = ticket + 1
  /\ adv' = [adv EXCEPT ![w] = @ + 1]
  /\ pc' = [pc EXCEPT ![w] = "unlock"]
  /\ UNCHANGED <<config, budget, store, onceVars, posMutex, initErr, count, tmp,
                 keys, sendLocals, seen, invoked, store0, fell>>

G_Unlock(w) == Unlock(w, "unlock", "LIndex")

\* client.LIndex: an error (an I/O error, or redis.Nil for an index outside
\* the list) goes to the fallback.  The package without JSON returns the
\* stored value as the credential.
G_LIndex(w) ==
  /\ pc[w] = "LIndex"
  /\ \E ioerr \in BOOLEAN :
       IF ioerr \/ position[w] >= Len(store)
       THEN /\ pc' = [pc EXCEPT ![w] = "fallback"]
            /\ fell' = [fell EXCEPT ![w] = "fetch"]
            /\ UNCHANGED apiKey
       ELSE /\ apiKey' = [apiKey EXCEPT ![w] = store[position[w] + 1]]
            /\ pc' = [pc EXCEPT ![w] = IF jsonRecords THEN "decode" ELSE "build"]
            /\ UNCHANGED fell
  /\ UNCHANGED <<config, budget, store, onceVars, cursorVars, initErr, selLocals,
                 req, input, fullUrl, result, written, upstream, logs, cancelled,
                 sel, ticket, seen, adv, invoked, store0>>

\* the package with JSON: decode the stored record into map[string]string,
\* log the masked key with the proxy and return the "key"; a record that does
\* not decode goes to the fallback
G_Decode(w) ==
  /\ pc[w] = "decode"
  /\ LET d == UnmarshalStrings(apiKey[w])
         k == IF "key" \in DOMAIN d.obj THEN d.obj["key"] ELSE ""
         proxy == IF "proxy" \in DOMAIN d.obj THEN d.obj["proxy"] ELSE ""
     IN
     IF ~d.ok
     THEN /\ apiKey' = [apiKey EXCEPT ![w] = ""]
          /\ pc' = [pc EXCEPT ![w] = "fallback"]
          /\ fell' = [fell EXCEPT ![w] = "fetch"]
          /\ UNCHANGED logs
     ELSE /\ apiKey' = [apiKey EXCEPT ![w] = k]
          /\ pc' = [pc EXCEPT ![w] = "build"]
          /\ Log(w, "Got API key and proxy from Redis: key=" \o maskAPIKey(k)
                    \o ", proxy=" \o proxy)
          /\ UNCHANGED fell
  /\ UNCHANGED <<config, budget, store, onceVars, cursorVars, initErr, selLocals,
                 req, input, fullUrl, result, written, upstream, cancelled,
                 sel, ticket, seen, adv, invoked, store0>>

\* ------------------------------------------------------------------------
\* redis.getFallbackAPIKey
\* ------------------------------------------------------------------------
F_Load(w) ==
  /\ pc[w] = "fallback"
  /\ keys' = [keys EXCEPT ![w] = getAPIKeysFromEnv(API_KEY)]
  /\ count' = [count EXCEPT ![w] = Len(getAPIKeysFromEnv(API_KEY))]
  /\ IF Len(getAPIKeysFromEnv(API_KEY)) = 0
     THEN /\ apiKey' = [apiKey EXCEPT ![w] = ""]
          /\ pc' = [pc EXCEPT ![w] = "build"]
     ELSE /\ pc' = [pc EXCEPT ![w] = "F_lock"]
          /\ UNCHANGED apiKey
  /\ UNCHANGED <<config, budget, store, onceVars, cursorVars, initErr, tmp,
                 position, req, input, fullUrl, result, written, upstream, logs,
                 cancelled, history>>

F_Lock(w) == Lock(w, "F_lock", "F_read")

\* FallbackPos without the reduction modulo the count
FallbackPosRaw(cur, n) == cur

\* the position the fallback branch selects
FallbackPos(cur, n) == cur % n

\* FallbackNext without the increment
FallbackNextStuck(cur, n) == cur % n

\* the value the fallback branch leaves in currentPos
FallbackNext(cur, n) == (cur + 1) % n

\* position := currentPos % count
F_Read(w) ==
  /\ pc[w] = "F_read"
  /\ tmp' = [tmp EXCEPT ![w] = currentPos]
  /\ seen' = [seen EXCEPT ![w] = ticket]
  /\ position' = [position EXCEPT ![w] = FallbackPos(currentPos, count[w])]
  /\ pc' = [pc EXCEPT ![w] = "F_write"]
  /\ UNCHANGED <<config, budget, store, onceVars, cursorVars, initErr, count,
                 keys, sendLocals, sel, ticket, adv, invoked, store0, fell>>

\* currentPos = (currentPos + 1) % count
F_Write(w) ==
  /\ pc[w] = "F_write"
  /\ currentPos' = FallbackNext(currentPos, count[w])
  /\ sel' = Append(sel, [w |-> w, branch |-> "fallback", n |-> count[w],
                         pre |-> tmp[w], pos |-> position[w],
                         ticket |-> seen[w], nth |-> adv[w] + 1])
  /\ ticket' = ticket + 1
  /\ adv' = [adv EXCEPT ![w] = @ + 1]
  /\ pc' = [pc EXCEPT ![w] = "F_unlock"]
  /\ UNCHANGED <<config, budget, store, onceVars, posMutex, initErr, selLocals,
                 sendLocals, seen, invoked, store0, fell>>

F_Unlock(w) == Unlock(w, "F_unlock", "F_return")

\* return keys[position]
F_Return(w) ==
  /\ pc[w] = "F_return"
  /\ apiKey' = [apiKey EXCEPT ![w] = keys[w][position[w] + 1]]
  /\ pc' = [pc EXCEPT ![w] = "build"]
  /\ UNCHANGED <<config, budget, store, onceVars, cursorVars, initErr, selLocals,
                 req, input, fullUrl, result, written, upstream, logs, cancelled,
                 history>>

\* ------------------------------------------------------------------------
\* handler.SendToGemini after the credential is resolved
\* ------------------------------------------------------------------------
\* net/http validMethod: a non-empty token.  net/http answers a request whose
\* method is not one with 400 before it reaches MainHandle.
validMethod(m) ==
  /\ Len(m) > 0
  /\ \A i \in 1..Len(m) : isAlnum(At(m, i)) \/ Contains("!#$%&'*+-.^_|~", At(m, i))

\* the query SendToGemini gives the upstream URL: the inbound one without its
\* "key" values and with the resolved credential as "key"
RewriteQuery(u, key) == ValuesSet(ValuesDel(Query(u.RawQuery), "key"), "key", key)

\* fullUrl after parse.RawQuery = query.Encode()
BuildUrl(u, key) == String([u EXCEPT !.RawQuery = Encode(RewriteQuery(u, key))])

\* the length check on the resolved credential
MinKeyLen == 8

tooShort(key) == Len(key) < MinKeyLen

\* url.Parse, the rewrite of the query, the length check and
\* http.NewRequestWithContext
S_Build(w) ==
  /\ pc[w] = "build"
  /\ LET u == Parse(input[w].Url)
         url == BuildUrl(u, apiKey[w])
     IN
     IF ~u.ok
     THEN /\ result' = [result EXCEPT ![w].err =
                          "could not parse url: parse \"" \o PROXY_URL
                          \o input[w].Url \o "\": invalid URL escape"]
          /\ pc' = [pc EXCEPT ![w] = "failed"]
          /\ UNCHANGED <<fullUrl, logs>>
     ELSE /\ fullUrl' = [fullUrl EXCEPT ![w] = url]
          /\ IF tooShort(apiKey[w])
             THEN /\ result' = [result EXCEPT ![w].err =
                                  "invalid api key: " \o apiKey[w]]
                  /\ pc' = [pc EXCEPT ![w] = "failed"]
                  /\ UNCHANGED logs
             ELSE IF ~validMethod(input[w].Method)
             THEN /\ result' = [result EXCEPT ![w].err =
                                  "could not create request: net/http: invalid method"]
                  /\ pc' = [pc EXCEPT ![w] = "failed"]
                  /\ logs' = [logs EXCEPT ![w] = @ \o
                       << "using api key: " \o maskAPIKey(apiKey[w]),
                          "Final request URL: " \o url,
                          "Failed to create request: net/http: invalid method" >>]
             ELSE /\ pc' = [pc EXCEPT ![w] = "Do"]
                  /\ logs' = [logs EXCEPT ![w] = @ \o
                       << "using api key: " \o maskAPIKey(apiKey[w]),
                          "Final request URL: " \o url >>]
                  /\ UNCHANGED result
  /\ UNCHANGED <<config, budget, store, onceVars, cursorVars, initErr, selLocals,
                 req, input, apiKey, written, upstream, cancelled, history>>

\* the error httpClient.Do returns for the request of worker w
DoError(w, cause) ==
  "could not send request: " \o input[w].Method \o " \"" \o fullUrl[w] \o "\": " \o cause

\* the client disconnects while the upstream call is in flight: net/http
\* cancels r.Context(), from which getCtx derives the context SendToGemini
\* gives to http.NewRequestWithContext
Cancel(w) ==
  /\ pc[w] = "inflight"
  /\ ~cancelled[w]
  /\ cancelled' = [cancelled EXCEPT ![w] = TRUE]
  /\ UNCHANGED <<config, budget, store, onceVars, cursorVars, pc, initErr, selLocals,
                 req, input, apiKey, fullUrl, result, written, upstream, logs,
                 history>>

\* httpClient.Do, first half: the request goes out
S_Do(w) ==
  /\ pc[w] = "Do"
  /\ upstream' = [upstream EXCEPT ![w] =
                    Append(@, [Method |-> input[w].Method, Url |-> fullUrl[w]])]
  /\ pc' = [pc EXCEPT ![w] = "inflight"]
  /\ UNCHANGED <<config, budget, store, onceVars, cursorVars, initErr, selLocals,
                 req, input, apiKey, fullUrl, result, written, logs, cancelled,
                 history>>

\* aborted that never sees the context done
abortedNever(c) == FALSE

\* the transport gives up a round trip whose context is done
aborted(c) == c

\* httpClient.Do, second half: the round trip is given up because the
\* context is done, the transport fails (the 30 s timeout included), or a
\* response arrives
S_Resp(w) ==
  /\ pc[w] = "inflight"
  /\ IF aborted(cancelled[w])
     THEN /\ result' = [result EXCEPT ![w].err = DoError(w, "context canceled")]
          /\ Log(w, "HTTP request failed: " \o input[w].Method \o " \""
                    \o fullUrl[w] \o "\": context canceled")
          /\ pc' = [pc EXCEPT ![w] = "failed"]
     ELSE \/ /\ upFaults
             /\ result' = [result EXCEPT ![w].err = DoError(w, "dial tcp: i/o timeout")]
             /\ Log(w, "HTTP request failed: " \o input[w].Method \o " \""
                       \o fullUrl[w] \o "\": dial tcp: i/o timeout")
             /\ pc' = [pc EXCEPT ![w] = "failed"]
          \/ \E r \in respSet :
               /\ result' = [result EXCEPT ![w].resp = r]
               /\ Log(w, "Response status code: " \o Itoa(r.StatusCode))
               /\ pc' = [pc EXCEPT ![w] = "ReadAll"]
  /\ UNCHANGED <<config, budget, store, onceVars, cursorVars, initErr, selLocals,
                 req, input, apiKey, fullUrl, written, upstream, cancelled, history>>

\* io.ReadAll(resp.Body): the read fails, or the whole body is returned with
\* the status and the headers
S_ReadAll(w) ==
  /\ pc[w] = "ReadAll"
  /\ \/ /\ upFaults
        /\ result' = [result EXCEPT ![w] =
                        [err |-> "could not read response body: unexpected EOF",
                         resp |-> NoResp]]
        /\ Log(w, "Failed to read response body: unexpected EOF")
        /\ pc' = [pc EXCEPT ![w] = "failed"]
     \/ /\ pc' = [pc EXCEPT ![w] = "ok"]
        /\ UNCHANGED <<result, logs>>
  /\ UNCHANGED <<config, budget, store, onceVars, cursorVars, initErr, selLocals,
                 req, input, apiKey, fullUrl, written, upstream, cancelled, history>>

\* ------------------------------------------------------------------------
\* api.MainHandle after SendToGemini returned
\* ------------------------------------------------------------------------
\* the trace id trace.WrapTraceInfo put in the context of the request
TraceId(w) == "trace-" \o Itoa(w)

\* the status net/http sends when the handler writes a body without calling
\* WriteHeader
ImplicitStatus == 200

\* what api.doStdResponse writes for resp
StdResponse(w, resp) ==
  [Status |-> ImplicitStatus,
   Header |-> ValuesSet(ValuesSet(EmptyValues, "X-Trace-Id", TraceId(w)),
                        "X-Content-From", "agent"),
   Body |-> Fprintf(Marshal(resp))]

RECURSIVE AddAll(_, _, _)
AddAll(h, k, vs) ==
  IF Len(vs) = 0 THEN h ELSE AddAll(ValuesAdd(h, k, vs[1]), k, Tail(vs))

\* CopyHeaders that keeps only the first value of each name
RECURSIVE CopyHeadersFirst(_, _, _)
CopyHeadersFirst(h, from, names) ==
  IF names = {} THEN h
  ELSE LET k == CHOOSE n \in names : TRUE IN
       CopyHeadersFirst(AddAll(h, k, SubSeq(from[k], 1, 1)), from, names \ {k})

\* the loop of doGeminiResponse over resp.Headers
RECURSIVE CopyHeaders(_, _, _)
CopyHeaders(h, from, names) ==
  IF names = {} THEN h
  ELSE LET k == CHOOSE n \in names : TRUE IN
       CopyHeaders(AddAll(h, k, from[k]), from, names \ {k})

\* what api.doGeminiResponse writes for resp
GeminiResponse(w, resp) ==
  LET h0 == ValuesSet(ValuesSet(EmptyValues, "X-Trace-Id", TraceId(w)),
                      "X-Content-From", "gemini")
      h1 == CopyHeaders(h0, resp.Headers, DOMAIN resp.Headers)
      h2 == IF Len(ValuesGet(h1, "Content-Type")) = 0
            THEN ValuesSet(h1, "Content-Type", "application/json") ELSE h1
  IN [Status |-> resp.StatusCode, Header |-> h2, Body |-> resp.Body]

\* MainHandle without its return after doStdResponse
afterStdResponseNoReturn == "ok"

\* where MainHandle goes after doStdResponse: it returns
afterStdResponse == "done"

\* the err # nil branch of MainHandle: doStdResponse and return
M_Error(w) ==
  /\ pc[w] = "failed"
  /\ written' = [written EXCEPT ![w] =
       Append(@, StdResponse(w, [Code |-> 500,
                                 Body |-> "Internal server error. details: "
                                          \o result[w].err]))]
  /\ Log(w, "send to gemini err: " \o result[w].err)
  /\ pc' = [pc EXCEPT ![w] = afterStdResponse]
  /\ UNCHANGED <<config, budget, store, onceVars, cursorVars, initErr, selLocals,
                 req, input, apiKey, fullUrl, result, upstream, cancelled, history>>

\* the last line of MainHandle: doGeminiResponse
M_Relay(w) ==
  /\ pc[w] = "ok"
  /\ written' = [written EXCEPT ![w] = Append(@, GeminiResponse(w, result[w].resp))]
  /\ Log(w, "end request: " \o input[w].Url)
  /\ pc' = [pc EXCEPT ![w] = "done"]
  /\ UNCHANGED <<config, budget, store, onceVars, cursorVars, initErr, selLocals,
                 req, input, apiKey, fullUrl, result, upstream, cancelled, history>>

\* MainHandle has returned: net/http ends the response, the locals of the
\* call are gone and the goroutine is free for the next request
Finish(w) ==
  /\ pc[w] = "done"
  /\ pc' = [pc EXCEPT ![w] = "idle"]
  /\ req' = [req EXCEPT ![w] = Req("", "", "")]
  /\ input' = [input EXCEPT ![w] = NoInput]
  /\ count' = [count EXCEPT ![w] = 0]
  /\ tmp' = [tmp EXCEPT ![w] = 0]
  /\ position' = [position EXCEPT ![w] = 0]
  /\ keys' = [keys EXCEPT ![w] = <<>>]
  /\ apiKey' = [apiKey EXCEPT ![w] = ""]
  /\ fullUrl' = [fullUrl EXCEPT ![w] = ""]
  /\ result' = [result EXCEPT ![w] = [err |-> NoErr, resp |-> NoResp]]
  /\ written' = [written EXCEPT ![w] = <<>>]
  /\ upstream' = [upstream EXCEPT ![w] = <<>>]
  /\ logs' = [logs EXCEPT ![w] = <<>>]
  /\ cancelled' = [cancelled EXCEPT ![w] = FALSE]
  /\ seen' = [seen EXCEPT ![w] = 0]
  /\ adv' = [adv EXCEPT ![w] = 0]
  /\ invoked' = [invoked EXCEPT ![w] = FALSE]
  /\ fell' = [fell EXCEPT ![w] = "no"]
  /\ UNCHANGED <<config, budget, store, onceVars, cursorVars, initErr, sel, ticket,
                 store0>>

\* ------------------------------------------------------------------------
\* The specification
\* ------------------------------------------------------------------------
\* the steps process p takes by itself: all but the arrival of a request and
\* the cancellation of one, which are the caller's
Step(p) ==
  \/ OnceDo(p) \/ OnceRun(p) \/ OnceExit(p)
  \/ p = Main /\ I_Client
  \/ p \in Inits /\ (I_LLen(p) \/ I_Push(p))
  \/ p \in Workers /\
       (\/ getAPIKey(p) \/ G_Client(p) \/ G_LLen(p) \/ G_Lock(p)
        \/ G_Read(p) \/ G_Write(p) \/ G_Unlock(p) \/ G_LIndex(p) \/ G_Decode(p)
        \/ F_Load(p) \/ F_Lock(p) \/ F_Read(p) \/ F_Write(p) \/ F_Unlock(p)
        \/ F_Return(p) \/ S_Build(p) \/ S_Do(p) \/ S_Resp(p) \/ S_ReadAll(p)
        \/ M_Error(p) \/ M_Relay(p) \/ Finish(p))

Next ==
  \/ \E p \in Procs : OnceDo(p) \/ OnceRun(p) \/ OnceExit(p)
  \/ I_Client
  \/ \E p \in Inits : I_LLen(p) \/ I_Push(p)
  \/ \E w \in Workers :
       \/ MainHandle(w)
       \/ getAPIKey(w)
       \/ G_Client(w)
       \/ G_LLen(w)
       \/ G_Lock(w)
       \/ G_Read(w)
       \/ G_Write(w)
       \/ G_Unlock(w)
       \/ G_LIndex(w)
       \/ G_Decode(w)
       \/ F_Load(w)
       \/ F_Lock(w)
       \/ F_Read(w)
       \/ F_Write(w)
       \/ F_Unlock(w)
       \/ F_Return(w)
       \/ S_Build(w)
       \/ S_Do(w)
       \/ S_Resp(w)
       \/ S_ReadAll(w)
       \/ Cancel(w)
       \/ M_Error(w)
       \/ M_Relay(w)
       \/ Finish(w)

Spec == Init /\ [][Next]_vars

SpecSeq == InitSeq /\ [][Next]_vars

SpecUrl == InitUrl /\ [][Next]_vars

SpecPeers == InitPeers /\ [][Next]_vars

\* process p can take a step: it is neither at rest (main() in ListenAndServe,
\* a worker without request) nor waiting for a mutex that is held.  This is
\* ENABLED <<Step(p)>>_vars: but for the two waits, a step has no condition
\* other than the position of its process.
Runnable(p) ==
  /\ pc[p] \notin {"serve", "exit", "idle", "off"}
  /\ pc[p] = "GetClient" => (onceDone \/ onceMu = Free)
  /\ pc[p] \in {"lock", "F_lock"} => posMutex = Free

\* weak fairness of Step(p), with Runnable(p) for the enabling condition:
\* every process that can take a step eventually takes one: main() and the
\* goroutines of net/http run on, and a call on Redis or on the upstream
\* returns within its timeout
Fairness == \A p \in Procs : []<>(~Runnable(p)) \/ []<><<Step(p)>>_vars

SpecLive == InitUrl /\ [][Next]_vars /\ Fairness

\* ------------------------------------------------------------------------
\* maskAPIKey by itself
\* ------------------------------------------------------------------------
\* the strings of at most n characters over a and b
RECURSIVE StringsUpTo(_)
StringsUpTo(n) ==
  IF n = 0 THEN {""}
  ELSE LET S == StringsUpTo(n - 1) IN S \cup {s \o c : s \in S, c \in {"a", "b"}}

\* the secrets the two maskAPIKey are given
Secrets == StringsUpTo(MaxSecretLen)

\* no server runs: worker 1 holds a secret, nothing is masked yet
InitMask ==
  /\ jsonRecords = FALSE
  /\ API_KEY = ""
  /\ reqSet = {}
  /\ respSet = {}
  /\ active = {1}
  /\ peers = {}
  /\ upFaults = FALSE
  /\ budget = 0
  /\ store = <<>>
  /\ client = "unset"
  /\ onceDone = FALSE
  /\ onceMu = Free
  /\ currentPos = 0
  /\ posMutex = Free
  /\ pc = [p \in Procs \cup {Peer} |-> IF p = 1 THEN "mask" ELSE "off"]
  /\ initErr = [p \in Inits |-> "running"]
  /\ req = [w \in Workers |-> Req("", "", "")]
  /\ \E s \in Secrets :
       input = [w \in Workers |-> IF w = 1 THEN [NoInput EXCEPT !.APIKey = s]
                                  ELSE NoInput]
  /\ count = [p \in Procs \cup {Peer} |-> 0]
  /\ tmp = [w \in Workers |-> 0]
  /\ position = [w \in Workers |-> 0]
  /\ keys = [p \in Procs \cup {Peer} |-> <<>>]
  /\ apiKey = [w \in Workers |-> ""]
  /\ fullUrl = [w \in Workers |-> ""]
  /\ result = [w \in Workers |-> [err |-> NoErr, resp |-> NoResp]]
  /\ written = [w \in Workers |-> <<>>]
  /\ upstream = [w \in Workers |-> <<>>]
  /\ logs = [w \in Workers |-> <<>>]
  /\ cancelled = [w \in Workers |-> FALSE]
  /\ attempts = 0
  /\ fell = [w \in Workers |-> "no"]
  /\ sel = <<>>
  /\ ticket = 0
  /\ seen = [w \in Workers |-> 0]
  /\ adv = [w \in Workers |-> 0]
  /\ invoked = [w \in Workers |-> FALSE]
  /\ store0 = store

\* api.maskAPIKey(secret)
MaskApi(w) ==
  /\ pc[w] = "mask"
  /\ Log(w, apiMaskAPIKey(input[w].APIKey))
  /\ pc' = [pc EXCEPT ![w] = "mask2"]
  /\ UNCHANGED <<config, budget, store, onceVars, cursorVars, initErr, selLocals,
                 req, input, apiKey, fullUrl, result, written, upstream,
                 cancelled, history>>

\* handler.maskAPIKey(secret)
MaskHandler(w) ==
  /\ pc[w] = "mask2"
  /\ Log(w, maskAPIKey(input[w].APIKey))
  /\ pc' = [pc EXCEPT ![w] = "masked"]
  /\ UNCHANGED <<config, budget, store, onceVars, cursorVars, initErr, selLocals,
                 req, input, apiKey, fullUrl, result, written, upstream,
                 cancelled, history>>

NextMask == \E w \in active : MaskApi(w) \/ MaskHandler(w)

SpecMask == InitMask /\ [][NextMask]_vars

\* ------------------------------------------------------------------------
\* Properties
\* ------------------------------------------------------------------------
\* the fallback list
EnvKeys == getAPIKeysFromEnv(API_KEY)

\* where a worker is once handler.getAPIKey has returned
Returned == {"build", "Do", "inflight", "ReadAll", "ok", "failed", "done"}

\* C1: with the backing available and a fixed pool of N records, any N + 1
\* consecutive selections of the durable branch made by sequential calls are
\* such that the first N select every index 0..N-1 exactly once and the last
\* one selects the index of the first.
C1_RoundRobin ==
  \A i \in 1..Len(sel) :
    LET N == Len(store) IN
    (/\ client = "conn"
     /\ N >= 1
     /\ i + N <= Len(sel)
     /\ \A j \in i..(i + N) : sel[j].branch = "durable" /\ sel[j].n = N)
    => /\ {sel[j].pos : j \in i..(i + N - 1)} = 0..(N - 1)
       /\ \A j, k \in i..(i + N - 1) : sel[j].pos = sel[k].pos => j = k
       /\ sel[i + N].pos = sel[i].pos

\* a pool of three records was walked once and the fourth call wrapped around
C1_Witness ==
  /\ client = "conn"
  /\ Len(store) = 3
  /\ Len(sel) = 4
  /\ \A j \in 1..4 : sel[j].branch = "durable"
  /\ pc[1] = "done"

\* C3: currentPos is read and written only by the owner of posMutex, no two
\* selections read the cursor between the same two writes, and selections
\* fewer than N apart over pools of size N read different cursor values.
C3_CursorUnderLock ==
  /\ \A w \in Workers :
       pc[w] \in {"read", "write", "unlock", "F_read", "F_write", "F_unlock"}
       => posMutex = w
  /\ \A i, j \in 1..Len(sel) : i # j => sel[i].ticket # sel[j].ticket
  /\ \A i, j \in 1..Len(sel) :
       (/\ i < j
        /\ \A k \in i..j : sel[k].n = sel[i].n
        /\ j - i < sel[i].n)
       => sel[i].pre # sel[j].pre

\* one worker waits for the lock while the other is between its read and its
\* write, after an earlier selection
C3_Witness ==
  \E w1, w2 \in Workers :
    /\ w1 # w2
    /\ pc[w1] \in {"write", "F_write"}
    /\ pc[w2] \in {"lock", "F_lock"}
    /\ Len(sel) >= 1

C5_InitIdempotent == Len(store0) >= 1 => store = store0

\* InitializeAPIKeys has returned nil over a reachable backing that held one
\* record, with a fallback list that has entries to push
C5_Witness ==
  /\ Len(store0) = 1
  /\ client = "conn"
  /\ pc[Main] = "serve"
  /\ initErr[Main] = NoErr
  /\ count[Main] = 1
  /\ Len(EnvKeys) >= 1

\* what the upstream receives of a URL: the text after the origin, without
\* the fragment
UpstreamTarget(url) == SubSeq(Cut(url, "#").before, Len(PROXY_URL) + 1, Len(Cut(url, "#").before))

UpstreamPath(url) == unescape(Cut(UpstreamTarget(url), "?").before, "path").val

UpstreamQuery(url) == Query(Cut(UpstreamTarget(url), "?").after)

\* C2: a call of GetAPIKey that returns a credential has written the cursor
\* exactly once, whichever branch it took.
C2_AdvanceByOne ==
  \A w \in Workers :
    (invoked[w] /\ pc[w] \in Returned /\ Len(apiKey[w]) > 0) => adv[w] = 1

\* C6: a request that carries a credential of its own never calls GetAPIKey,
\* never writes the cursor, resolves to that credential and sends it as the
\* only "key" of the upstream URL; no step of the request changes the cursor,
\* the lock or the stored list.
C6_OverrideState ==
  \A w \in Workers :
    (Len(input[w].APIKey) > 0 /\ pc[w] \in Returned)
    => /\ ~invoked[w]
       /\ adv[w] = 0
       /\ apiKey[w] = input[w].APIKey
       /\ \A i \in 1..Len(upstream[w]) :
            /\ "key" \in DOMAIN UpstreamQuery(upstream[w][i].Url)
            /\ UpstreamQuery(upstream[w][i].Url)["key"] = <<input[w].APIKey>>

C6_OverrideStep ==
  \A w \in Workers :
    (Len(input[w].APIKey) > 0 /\ pc[w] \notin {"idle", "done"} /\ pc'[w] # pc[w])
    => /\ currentPos' = currentPos
       /\ posMutex' = posMutex
       /\ store' = store

C6_Override == [](C6_OverrideState) /\ [][C6_OverrideStep]_vars

\* a request with a credential of its own was forwarded and relayed
C6_Witness ==
  /\ Len(input[1].APIKey) > 0
  /\ pc[1] = "done"
  /\ Len(upstream[1]) = 1
  /\ result[1].err = NoErr

\* C7: once SendToGemini has checked the credential, a credential shorter
\* than 8 means an error and no upstream request, and a credential of 8 or
\* more means the upstream request is made.
C7_Threshold ==
  \A w \in Workers :
    pc[w] \in {"Do", "inflight", "ReadAll", "ok", "failed", "done"}
    => IF Len(apiKey[w]) < 8
       THEN result[w].err # NoErr /\ upstream[w] = <<>>
       ELSE pc[w] = "Do" \/ Len(upstream[w]) = 1

\* C8: the response to a failed forward has status 500, the JSON body
\* {"code", "body"}, the trace header and a source marker that is not gemini.
C8_ErrorResponse ==
  \A w \in Workers :
    (pc[w] = "done" /\ result[w].err # NoErr)
    => /\ Len(written[w]) = 1
       /\ written[w][1].Status = 500
       /\ written[w][1].Body =
            Marshal([Code |-> 500,
                     Body |-> "Internal server error. details: " \o result[w].err])
       /\ "X-Trace-Id" \in DOMAIN written[w][1].Header
       /\ ValuesGet(written[w][1].Header, "X-Content-From") # "gemini"

\* C9: a request that MainHandle has finished got exactly one response, the
\* relay marked gemini if and only if SendToGemini returned no error and else
\* the error response with nothing of the upstream in it; nothing is written
\* before.
C9_OneResponse ==
  \A w \in Workers :
    /\ pc[w] # "done" => written[w] = <<>>
    /\ pc[w] = "done" =>
         /\ Len(written[w]) = 1
         /\ (ValuesGet(written[w][1].Header, "X-Content-From") = "gemini")
              <=> (result[w].err = NoErr)
         /\ result[w].err = NoErr =>
              written[w][1] = GeminiResponse(w, result[w].resp)
         /\ result[w].err # NoErr =>
              /\ DOMAIN written[w][1].Header = {"X-Trace-Id", "X-Content-From"}
              /\ ValuesGet(written[w][1].Header, "X-Content-From") = "agent"

\* a forward failed after the upstream had answered, and the request is done
C9_Witness ==
  /\ pc[1] = "done"
  /\ result[1].err # NoErr
  /\ Len(upstream[1]) = 1
  /\ Len(written[1]) = 1

\* C10: the URL of every upstream request is the fixed origin plus the inbound
\* path, its query has exactly one "key", the resolved credential, and every
\* other inbound parameter with its values.
C10_UrlRewrite ==
  \A w \in Workers : \A i \in 1..Len(upstream[w]) :
    LET url == upstream[w][i].Url
        q == UpstreamQuery(url)
        inq == Query(req[w].RawQuery)
    IN /\ SubSeq(url, 1, Len(PROXY_URL)) = PROXY_URL
       /\ UpstreamPath(url) = req[w].Path
       /\ "key" \in DOMAIN q
       /\ q["key"] = <<apiKey[w]>>
       /\ \A n \in DOMAIN inq \ {"key"} : n \in DOMAIN q /\ q[n] = inq[n]

\* strings.Contains(s, t)
HasSubstr(s, t) ==
  \E i \in 1..(Len(s) - Len(t) + 1) : SubSeq(s, i, i + Len(t) - 1) = t

\* the last selection worker w made
LastSel(w) ==
  sel[CHOOSE i \in 1..Len(sel) :
        sel[i].w = w /\ \A j \in (i + 1)..Len(sel) : sel[j].w # w]

\* the values the relay gives header n: those doGeminiResponse sets itself,
\* followed by those of the upstream
RelayedValues(w, resp, n) ==
  (IF n = "X-Trace-Id" THEN <<TraceId(w)>>
   ELSE IF n = "X-Content-From" THEN <<"gemini">>
   ELSE <<>>)
  \o (IF n \in DOMAIN resp.Headers THEN resp.Headers[n] ELSE <<>>)

\* C11 as stated: the relay has the status and the body of the upstream,
\* under every header name of the upstream exactly the upstream values, a
\* trace header, and X-Content-From with the value gemini.
C11_RelayVerbatim ==
  \A w \in Workers :
    (pc[w] = "done" /\ result[w].err = NoErr)
    => /\ Len(written[w]) = 1
       /\ written[w][1].Status = result[w].resp.StatusCode
       /\ written[w][1].Body = result[w].resp.Body
       /\ \A n \in DOMAIN result[w].resp.Headers :
            /\ n \in DOMAIN written[w][1].Header
            /\ written[w][1].Header[n] = result[w].resp.Headers[n]
       /\ "X-Trace-Id" \in DOMAIN written[w][1].Header
       /\ "X-Content-From" \in DOMAIN written[w][1].Header
       /\ written[w][1].Header["X-Content-From"] = <<"gemini">>

\* C11 amended: the relay has the status and the body of the upstream; its
\* header names are those of the upstream, X-Trace-Id, X-Content-From and
\* Content-Type; under X-Trace-Id and X-Content-From the value set by the
\* proxy comes first and the upstream values of that name follow it; every
\* other name has exactly the upstream values, and Content-Type is
\* application/json when the upstream gave none.
C11_Relay ==
  \A w \in Workers :
    (pc[w] = "done" /\ result[w].err = NoErr)
    => LET resp == result[w].resp
           out == written[w][1]
       IN /\ Len(written[w]) = 1
          /\ out.Status = resp.StatusCode
          /\ out.Body = resp.Body
          /\ DOMAIN out.Header =
               DOMAIN resp.Headers \cup {"X-Trace-Id", "X-Content-From", "Content-Type"}
          /\ \A n \in DOMAIN out.Header :
               out.Header[n] =
                 IF n = "Content-Type" /\ ValuesGet(resp.Headers, n) = ""
                 THEN <<"application/json">>
                 ELSE RelayedValues(w, resp, n)

\* a response that has a header with two values and a header named
\* X-Content-From was relayed
C11_Witness ==
  /\ pc[1] = "done"
  /\ result[1].err = NoErr
  /\ Len(written[1]) = 1
  /\ "X-Content-From" \in DOMAIN result[1].resp.Headers
  /\ "Set-Cookie" \in DOMAIN result[1].resp.Headers
  /\ Len(result[1].resp.Headers["Set-Cookie"]) = 2

\* C12: no log line of a request holds the whole credential the request
\* brought or the whole credential that was resolved for it.
C12_MaskedLogs ==
  \A w \in Workers : \A i \in 1..Len(logs[w]) :
    \A cred \in {input[w].APIKey, apiKey[w]} :
      Len(cred) > 0 => ~HasSubstr(logs[w][i], cred)

\* C13: a call of GetAPIKey always returns; it returns the empty credential
\* when the backing is unavailable or the pool is empty and the fallback list
\* is empty, and a request whose credential is empty is then rejected as an
\* invalid credential with no upstream request.
C13_NeverFails ==
  \A w \in Workers :
    (invoked[w] /\ pc[w] \in Returned)
    => /\ (Len(EnvKeys) = 0 /\ (client = "nil" \/ Len(store) = 0))
            => apiKey[w] = ""
       /\ (apiKey[w] = "" /\ pc[w] \in {"failed", "done"})
            => /\ result[w].err = "invalid api key: "
               /\ upstream[w] = <<>>
       /\ apiKey[w] = "" => pc[w] \in {"build", "failed", "done"}

\* C14: when a request without credential is served by a record of the
\* durable pool that is a JSON object with a string "key", every upstream
\* request made for it carries exactly that "key" as its key parameter.
C14_EndToEnd ==
  \A w \in Workers :
    (/\ invoked[w]
     /\ pc[w] \in Returned
     /\ adv[w] = 1
     /\ fell[w] = "no"
     /\ LastSel(w).branch = "durable"
     /\ LastSel(w).pos < Len(store)
     /\ UnmarshalStrings(store[LastSel(w).pos + 1]).ok
     /\ "key" \in DOMAIN UnmarshalStrings(store[LastSel(w).pos + 1]).obj)
    => \A i \in 1..Len(upstream[w]) :
         /\ "key" \in DOMAIN UpstreamQuery(upstream[w][i].Url)
         /\ UpstreamQuery(upstream[w][i].Url)["key"] =
              <<UnmarshalStrings(store[LastSel(w).pos + 1]).obj["key"]>>

\* C15: a request that is cancelled while its upstream call is in flight
\* gets the call aborted with the error of the context, is finished by its
\* worker, and has exactly one upstream request made for it.
C15_Cancellation ==
  /\ \A w \in Workers :
       (cancelled[w] /\ pc[w] = "inflight") ~> (pc[w] = "done" /\ cancelled[w])
  /\ [](\A w \in Workers :
          cancelled[w]
          => /\ Len(upstream[w]) = 1
             /\ pc[w] \in {"inflight", "failed", "done"}
             /\ pc[w] # "inflight"
                  => result[w].err = DoError(w, "context canceled"))

\* a cancelled request was answered with the error response
C15_Witness ==
  /\ cancelled[1]
  /\ pc[1] = "done"
  /\ Len(upstream[1]) = 1
  /\ Len(written[1]) = 1

\* C16: main() always comes to serve, whatever InitializeAPIKeys returned,
\* and a call of GetAPIKey that finds the backing unavailable or fails to
\* count the pool is served by the fallback branch alone.
C16_StartupContinues ==
  /\ <>(pc[Main] = "serve")
  /\ [](pc[Main] = "serve" => initErr[Main] \in {NoErr, "LLen", "RPush"})
  /\ [](\A w \in Workers :
          (invoked[w] /\ pc[w] \in Returned /\ (client = "nil" \/ fell[w] = "count"))
          => IF Len(EnvKeys) = 0
             THEN adv[w] = 0 /\ apiKey[w] = ""
             ELSE /\ adv[w] = 1
                  /\ LastSel(w).branch = "fallback"
                  /\ apiKey[w] = EnvKeys[LastSel(w).pos + 1])

\* InitializeAPIKeys returned an I/O error, main() serves, and a request
\* whose count of the pool failed was served by a fallback credential
C16_Witness ==
  /\ pc[Main] = "serve"
  /\ initErr[Main] = "LLen"
  /\ pc[1] = "done"
  /\ fell[1] = "count"
  /\ result[1].err = NoErr
  /\ Len(upstream[1]) = 1

\* C17: of two selections that follow each other, made by different calls
\* over pools of the same size N >= 2, the second never takes the position
\* of the first, whichever branch each of them takes.
C17_DistinctPositions ==
  \A i \in 1..(Len(sel) - 1) :
    (/\ sel[i].n = sel[i + 1].n
     /\ sel[i].n >= 2
     /\ (sel[i].w # sel[i + 1].w \/ sel[i + 1].nth = 1))
    => sel[i].pos # sel[i + 1].pos

\* the credential the durable branch returns for a stored record
Credential(rec) ==
  IF jsonRecords
  THEN (IF "key" \in DOMAIN UnmarshalStrings(rec).obj
        THEN UnmarshalStrings(rec).obj["key"] ELSE "")
  ELSE rec

\* C18: a call whose fetch or decode failed returns the credential of the
\* fallback branch and leaves the client and the stored list as they were; a
\* call that meets no failure over a reachable backing with a pool that is
\* not empty is served by the durable branch.
C18_FailureState ==
  \A w \in Workers :
    (invoked[w] /\ pc[w] \in Returned)
    => /\ fell[w] = "fetch"
            => /\ client = "conn"
               /\ IF Len(EnvKeys) = 0
                  THEN apiKey[w] = "" /\ adv[w] = 1
                  ELSE /\ adv[w] = 2
                       /\ LastSel(w).branch = "fallback"
                       /\ apiKey[w] = EnvKeys[LastSel(w).pos + 1]
       /\ (fell[w] = "no" /\ client = "conn" /\ Len(store) > 0)
            => /\ adv[w] = 1
               /\ LastSel(w).branch = "durable"
               /\ apiKey[w] = Credential(store[LastSel(w).pos + 1])

C18_FailureStep ==
  \A w \in Workers :
    (fell[w] # "fetch" /\ fell'[w] = "fetch")
    => /\ client' = client
       /\ onceDone' = onceDone
       /\ store' = store

C18_FallbackThisCallOnly == [](C18_FailureState) /\ [][C18_FailureStep]_vars

\* a call fell through to the fallback after its fetch failed, and the next
\* call was served by the durable branch
C18_Witness ==
  /\ Len(sel) = 3
  /\ sel[1].branch = "durable"
  /\ sel[2].branch = "fallback" /\ sel[2].nth = 2
  /\ sel[3].branch = "durable" /\ sel[3].nth = 1
  /\ pc[1] = "done"
  /\ fell[1] = "no"
  /\ Len(EnvKeys) >= 1

\* C19: the function given to clientOnce.Do runs at most once, every caller
\* of GetClient gets the client it left, and the client never changes after.
C19_OnceState ==
  /\ attempts <= 1
  /\ onceDone => (attempts = 1 /\ client \in {"conn", "nil"})
  /\ \A p \in Procs : pc[p] = "gotClient" => (onceDone /\ client # "unset")

C19_OnceStep == client # "unset" => client' = client

C19_ConnectOnce == [](C19_OnceState) /\ [][C19_OnceStep]_vars

\* both workers have called GetClient after main() did, the backing is
\* marked unavailable and one attempt was made
C19_Witness ==
  /\ attempts = 1
  /\ client = "nil"
  /\ \A w \in Workers : pc[w] = "gotClient"

\* C20: the stored list never gets shorter than it was, nothing is appended
\* to a list that held records when the instances started, and a list that
\* was empty ends up with each record at most once.
C20_PopulateOnce ==
  /\ Len(store) >= Len(store0)
  /\ Len(store0) > 0 => store = store0
  /\ \A i, j \in 1..Len(store) : (i # j /\ Len(store0) = 0) => store[i] # store[j]

\* the CredentialRecord invariant: the record is a JSON object whose "key"
\* is a string that is not empty
hasSecret(rec) ==
  /\ UnmarshalAny(rec).ok
  /\ "key" \in DOMAIN UnmarshalAny(rec).obj
  /\ UnmarshalAny(rec).obj["key"].t = "string"
  /\ UnmarshalAny(rec).obj["key"].v # ""

\* C21: when the InitializeAPIKeys that validates its records has returned
\* nil over a reachable backing whose list was empty, the stored list is the
\* configured records that are JSON objects with a non-empty string "key",
\* in their order, and nothing else.
C21_ValidRecordsOnly ==
  (/\ jsonRecords
   /\ pc[Main] = "serve"
   /\ initErr[Main] = NoErr
   /\ client = "conn"
   /\ Len(store0) = 0)
  => store = SelectSeq(EnvKeys, hasSecret)

\* C22: every position selected lies in 0..n-1 for the count n it was
\* reduced by; the position given to LIndex is an index of the stored list,
\* and the position that indexes the fallback list is an index of that list,
\* whatever value the other branch left in the cursor.
C22_IndexInBounds ==
  /\ \A i \in 1..Len(sel) :
       /\ sel[i].pos \in 0..(sel[i].n - 1)
       /\ sel[i].branch = "durable" => sel[i].n <= Len(store)
       /\ sel[i].branch = "fallback" => sel[i].n = Len(EnvKeys)
  /\ \A w \in Workers :
       /\ pc[w] = "LIndex" => position[w] \in 0..(Len(store) - 1)
       /\ pc[w] \in {"F_write", "F_unlock", "F_return"}
            => position[w] \in 0..(Len(keys[w]) - 1)

\* a call was served by the fallback list after the durable branch had left
\* in the cursor a value that is no index of the fallback list
C22_Witness ==
  \E i \in 2..Len(sel) :
    /\ sel[i - 1].branch = "durable"
    /\ sel[i].branch = "fallback"
    /\ sel[i].pre >= sel[i].n
    /\ sel[i].n < sel[i - 1].n
    /\ pc[sel[i].w] = "done"
    /\ apiKey[sel[i].w] = EnvKeys[sel[i].pos + 1]

\* r is the masked form of secret s: <empty> for the empty secret,
\* <too_short> for one of fewer than 8 characters, else 12 characters: the
\* first 4 of s, four stars, the last 4 of s
MaskedAs(s, r) ==
  IF Len(s) = 0 THEN r = "<empty>"
  ELSE IF Len(s) < 8 THEN r = "<too_short>"
  ELSE /\ Len(r) = 12
       /\ \A i \in 1..4 : At(r, i) = At(s, i)
       /\ \A i \in 5..8 : At(r, i) = "*"
       /\ \A i \in 1..4 : At(r, 8 + i) = At(s, Len(s) - 4 + i)

\* C23: what maskAPIKey of package api returns for a secret is its masked
\* form, and so is what maskAPIKey of package handler returns; the two are
\* the same string.
C23_Masking ==
  \A w \in Workers :
    /\ pc[w] \in {"mask2", "masked"} => MaskedAs(input[w].APIKey, logs[w][1])
    /\ pc[w] = "masked"
         => /\ MaskedAs(input[w].APIKey, logs[w][2])
            /\ logs[w][1] = logs[w][2]

\* a secret of exactly 8 characters went through both copies
C23_Witness ==
  /\ pc[1] = "masked"
  /\ input[1].APIKey = "aaabbbab"
  /\ logs[1] = <<"aaab****bbab", "aaab****bbab">>

====
